---- MODULE Spec2Model ----
(***************************************************************************)
(* FResQ driver dashboard: the App component (vehicle, orders, optimized   *)
(* route) and its MapComponent child (route-shape resolution through the   *)
(* OSRM routing service, stop markers, NGO markers), together with the     *)
(* order-card urgency styling.                                             *)
(*                                                                         *)
(* One action is one run-to-completion slice of the UI event loop: the     *)
(* synchronous part of a handler (or the continuation after an await),     *)
(* followed by the React re-render it causes and the effects that the      *)
(* re-render schedules.                                                    *)
(*                                                                         *)
(* State updates made in one slice are batched into one re-render (React   *)
(* 18 under Vite).  Every re-render of App builds a new lookup object, so  *)
(* the route effect of MapComponent, whose dependencies are [route,        *)
(* locations], runs after each of them; a re-render of MapComponent alone  *)
(* keeps its props and runs no effect.                                     *)
(*                                                                         *)
(* Coordinates are kept as integers in units of 1e-4 degree.  The field    *)
(* `latest` of a request in flight and the variable pathIsLatest are       *)
(* bookkeeping: they record which run of the route effect a request or the *)
(* displayed path belongs to, which the code itself does not track.  The   *)
(* variable prior is bookkeeping too: the session state at the click whose *)
(* request is awaited, to which the state after the answer is compared.    *)
(***************************************************************************)
EXTENDS Integers, Sequences, FiniteSets, TLC

\* ------------------------------------------------------------------ bounds
MaxOrders == 2      \* longest order list the backend answers with
MaxInFlight == 2    \* most routing-service requests awaiting an answer
MaxMinutes == 340   \* minutesRemaining fed to getOrderStyle: -MaxMinutes..MaxMinutes

\* ------------------------------------------------------------- JS values
NullRoute == [null |-> TRUE]            \* route === null
NullVehicle == [null |-> TRUE]          \* vehicle === null
NoError == "null"                       \* error === null
Undefined == [undefined |-> TRUE]       \* a property read that finds nothing

\* Kota centre, the driver's start location.
Kota == [lat |-> 251825, lon |-> 758236]

MyVehicle ==
    [id |-> "Driver_1", capacity |-> 100, start_location |-> Kota]

ErrNoActive == "No active orders found. Go to /customer to create one!"
ErrFetch == "Failed to fetch orders. Is backend running?"
ErrNoOrders == "No orders to optimize. Fetch live data first."
ErrOptimize == "Optimization failed. Backend error."

\* ------------------------------------------------- answers of collaborators
\* Orders the backend may hold (GET /api/orders answers with a list of them).
Pickup1 == [lat |-> 252000, lon |-> 758500]
Delivery1 == [lat |-> 251500, lon |-> 758000]
Pickup2 == [lat |-> 251900, lon |-> 758100]

OrderPool ==
    { [id |-> 1, pickup_location |-> Pickup1, delivery_location |-> Delivery1,
       pickup_window |-> [end |-> 300]],
      [id |-> 2, pickup_location |-> Pickup2, delivery_location |-> Delivery1,
       pickup_window |-> [end |-> 120]] }

\* Routes the optimizer may answer with (POST /api/optimize): no stop, the
\* depot followed by the stops of order 1, the pickup of order 2 alone.
StopDepot == [location_id |-> "DEPOT", type |-> "start"]
StopPickup1 == [location_id |-> "1_pickup", type |-> "pickup"]
StopDelivery1 == [location_id |-> "1_delivery", type |-> "delivery"]
StopPickup2 == [location_id |-> "2_pickup", type |-> "pickup"]

RoutePool ==
    { <<>>,
      <<StopDepot, StopPickup1, StopDelivery1>>,
      <<StopPickup2>> }

\* total_distance values (meters) the optimizer may report.
DistancePool == {12345}

\* Road geometries the routing service may answer with, as (lon, lat) pairs.
GeometryPool ==
    { << <<758236, 251825>>, <<758300, 251900>>, <<758500, 252000>>,
         <<758000, 251500>> >>,
      << <<758100, 251900>>, <<758000, 251500>> >> }

\* Answers of the routing service: a raised error (network error, non-2xx),
\* a body without routes, an empty route list, a route without geometry, and
\* a proper route.
OsrmFailures == { [status |-> "error"] }
OsrmNoRoutes ==
    { [status |-> "ok", data |-> [code |-> "NoRoute"]],
      [status |-> "ok", data |-> [code |-> "Ok", routes |-> <<>>]] }
OsrmMalformed ==
    { [status |-> "ok", data |-> [code |-> "Ok", routes |-> <<[weight |-> 0]>>]],
      [status |-> "ok",
       data |-> [code |-> "Ok",
                 routes |-> <<[geometry |-> [type |-> "LineString"]]>>]] }
OsrmRoutes ==
    { [status |-> "ok",
       data |-> [code |-> "Ok",
                 routes |-> <<[geometry |-> [coordinates |-> g]]>>]] :
      g \in GeometryPool }

\* Answers of GET /api/ngos.
NgoPool ==
    { <<[lat |-> 251700, lon |-> 758300, name |-> "Asha", city |-> "Kota"]>> }

\* Sequences over S without repetition, of length at most n.
DistinctSeqs(S, n) ==
    { s \in UNION { [1..k -> S] : k \in 0..n } :
        \A i, j \in 1..Len(s) : i # j => s[i] # s[j] }

OrderLists == DistinctSeqs(OrderPool, MaxOrders)

\* ------------------------------------------------------------------ state
VARIABLES
    vehicle,        \* App: useState(null)
    orders,         \* App: useState([])
    route,          \* App: useState(null); [stops |-> <<...>>] when set
    distance,       \* App: useState(0), as the text shown in the stat box
    loading,        \* App: useState(false)
    error,          \* App: useState(null)
    darkMode,       \* App: useState(true)
    pending,        \* App request awaited: "none", "orders" or "optimize"
    prior,          \* vehicle, orders, route and distance at the click whose
                    \* request is awaited
    locations,      \* MapComponent prop: the lookup built by the last App render
    routePath,      \* MapComponent: useState([]), (lat, lon) pairs
    ngos,           \* MapComponent: useState([])
    ngoPending,     \* GET /api/ngos awaited
    inflight,       \* fetchRoadShape calls awaiting the routing service
    pathIsLatest,   \* routePath was last written by the latest run of the
                    \* route effect or by the request that run issued
    markers,        \* stop markers of the last render
    layers,         \* route line and arrow decorators on the Leaflet map
    minsRemaining,  \* argument of the getOrderStyle call under study
    cardStyle       \* its result

appVars == <<vehicle, orders, route, distance, loading, error, darkMode, pending, prior>>
mapVars == <<locations, routePath, ngos, ngoPending, inflight, pathIsLatest, markers,
            layers>>
styleVars == <<minsRemaining, cardStyle>>
vars == <<appVars, mapVars, styleVars>>

\* ----------------------------------------------------------- App helpers
\* lookup[k] = v on a plain object.
Put(lookup, k, v) ==
    [x \in DOMAIN lookup \cup {k} |-> IF x = k THEN v ELSE lookup[x]]

\* lookup[k] read from a plain object.
Get(lookup, k) ==
    IF k \in DOMAIN lookup THEN lookup[k] ELSE Undefined

EmptyLookup == [x \in {} |-> Undefined]

RECURSIVE AddOrders(_, _)
AddOrders(lookup, os) ==
    IF os = <<>> THEN lookup
    ELSE LET order == Head(os)
             strId == ToString(order.id)
         IN AddOrders(Put(Put(lookup, strId \o "_pickup", order.pickup_location),
                          strId \o "_delivery", order.delivery_location),
                      Tail(os))

\* Mutant: the pickup entry of order 1 is never dropped.
createLocationLookup_Leftover(v, os) ==
    LET depot ==
            IF v # NullVehicle
            THEN Put(Put(Put(EmptyLookup, "DEPOT", v.start_location),
                         "DEPOT_START", v.start_location),
                     "DEPOT_END", v.start_location)
            ELSE EmptyLookup
    IN AddOrders(Put(depot, "1_pickup", Pickup1), os)

createLocationLookup(v, os) ==
    LET depot ==
            IF v # NullVehicle
            THEN Put(Put(Put(EmptyLookup, "DEPOT", v.start_location),
                         "DEPOT_START", v.start_location),
                     "DEPOT_END", v.start_location)
            ELSE EmptyLookup
    IN AddOrders(depot, os)

\* Array.prototype.sort with (a, b) => a.pickup_window.end - b.pickup_window.end
\* (a stable sort): insertion of each element after the last one not larger.
RECURSIVE InsertByEnd(_, _)
InsertByEnd(sorted, o) ==
    IF sorted = <<>> THEN <<o>>
    ELSE IF sorted[Len(sorted)].pickup_window.end - o.pickup_window.end <= 0
         THEN Append(sorted, o)
         ELSE Append(InsertByEnd(SubSeq(sorted, 1, Len(sorted) - 1), o),
                     sorted[Len(sorted)])

\* Mutant: the fetched list is stored as received.
SortByEnd_AsReceived(os) == os

RECURSIVE SortByEnd(_)
SortByEnd(os) ==
    IF os = <<>> THEN <<>>
    ELSE InsertByEnd(SortByEnd(SubSeq(os, 1, Len(os) - 1)), os[Len(os)])

\* (total_distance / 1000).toFixed(2)
ToFixed2(meters) ==
    LET hundredths == (meters + 5) \div 10
        frac == hundredths % 100
    IN ToString(hundredths \div 100) \o "." \o
       (IF frac < 10 THEN "0" ELSE "") \o ToString(frac)

\* ------------------------------------------------- MapComponent helpers
\* createPin(type): the pin variant (colour and glyph) of a stop marker.
createPin(type) ==
    IF type = "delivery" THEN [color |-> "#e74c3c", icon |-> "fas fa-flag-checkered"]
    ELSE IF type = "pickup" THEN [color |-> "#2ecc71", icon |-> "fas fa-box"]
    ELSE [color |-> "#3b82f6", icon |-> "fas fa-car"]

\* Mutant: the marker list without the type === 'start' test.
StopMarkers_WithStart(r, lookup) ==
    IF r = NullRoute THEN <<>>
    ELSE LET rendered(idx) == Get(lookup, r.stops[idx + 1].location_id) # Undefined
             element(idx) ==
                 LET point == r.stops[idx + 1]
                     loc == Get(lookup, point.location_id)
                 IN [key |-> idx, position |-> <<loc.lat, loc.lon>>,
                     icon |-> createPin(point.type)]
             RECURSIVE Collect(_)
             Collect(idx) ==
                 IF idx >= Len(r.stops) THEN <<>>
                 ELSE (IF rendered(idx) THEN <<element(idx)>> ELSE <<>>)
                      \o Collect(idx + 1)
         IN Collect(0)

\* The <Marker> elements of one render; key is the idx of `stop-${idx}`.
StopMarkers(r, lookup) ==
    IF r = NullRoute THEN <<>>
    ELSE LET rendered(idx) ==
                 LET point == r.stops[idx + 1]
                     loc == Get(lookup, point.location_id)
                 IN ~(loc = Undefined \/ point.type = "start")
             element(idx) ==
                 LET point == r.stops[idx + 1]
                     loc == Get(lookup, point.location_id)
                 IN [key |-> idx, position |-> <<loc.lat, loc.lon>>,
                     icon |-> createPin(point.type)]
             RECURSIVE Collect(_)
             Collect(idx) ==
                 IF idx >= Len(r.stops) THEN <<>>
                 ELSE (IF rendered(idx) THEN <<element(idx)>> ELSE <<>>)
                      \o Collect(idx + 1)
         IN Collect(0)

\* Mutant: the DEPOT entry pushed at the end instead of unshifted.
Waypoints_DepotLast(stops, lookup) ==
    LET mapped == [i \in 1..Len(stops) |-> Get(lookup, stops[i].location_id)]
        found == SelectSeq(mapped, LAMBDA loc : loc # Undefined)
    IN IF Get(lookup, "DEPOT") # Undefined
       THEN Append(found, Get(lookup, "DEPOT"))
       ELSE found

\* route.map(point => locations[point.location_id]).filter(Boolean), then
\* the DEPOT entry unshifted when the lookup has one.
Waypoints(stops, lookup) ==
    LET mapped == [i \in 1..Len(stops) |-> Get(lookup, stops[i].location_id)]
        found == SelectSeq(mapped, LAMBDA loc : loc # Undefined)
    IN IF Get(lookup, "DEPOT") # Undefined
       THEN <<Get(lookup, "DEPOT")>> \o found
       ELSE found

\* waypoints.map(loc => `${loc.lon},${loc.lat}`), the ';'-joined URL part.
RequestCoords(waypoints) ==
    [i \in 1..Len(waypoints) |-> <<waypoints[i].lon, waypoints[i].lat>>]

\* Mutant: the fallback keeps the (lon, lat) order of the request.
StraightLine_LonLat(waypoints) ==
    [i \in 1..Len(waypoints) |-> <<waypoints[i].lon, waypoints[i].lat>>]

\* waypoints.map(w => [w.lat, w.lon])
StraightLine(waypoints) ==
    [i \in 1..Len(waypoints) |-> <<waypoints[i].lat, waypoints[i].lon>>]

\* Mutant: the geometry taken over without flipping the axes.
FlipCoords_NoFlip(geo) ==
    [i \in 1..Len(geo) |-> <<geo[i][1], geo[i][2]>>]

\* geo.map(c => [c[1], c[0]])
FlipCoords(geo) ==
    [i \in 1..Len(geo) |-> <<geo[i][2], geo[i][1]>>]

\* The body of fetchRoadShape after the await: does it call setRoutePath?
WritesPath(response) ==
    \/ response.status = "error"
    \/ /\ "routes" \in DOMAIN response.data
       /\ Len(response.data.routes) > 0

\* ... and the value it sets (the catch branch also takes the TypeError of
\* reading .coordinates off a route without geometry, or of calling .map on
\* missing coordinates).
ResolvedPath(req, response) ==
    IF response.status = "error" THEN StraightLine(req.waypoints)
    ELSE IF /\ "geometry" \in DOMAIN response.data.routes[1]
            /\ "coordinates" \in DOMAIN response.data.routes[1].geometry
         THEN FlipCoords(response.data.routes[1].geometry.coordinates)
         ELSE StraightLine(req.waypoints)

\* The requests in flight no longer belong to the latest effect run.
Superseded(reqs) ==
    [i \in 1..Len(reqs) |-> [reqs[i] EXCEPT !.latest = FALSE]]

\* useEffect(..., [route, locations]) of MapComponent, run with the props r
\* and lookup.
RouteEffect(r, lookup) ==
    IF r = NullRoute \/ Len(r.stops) < 1
    THEN /\ routePath' = <<>>
         /\ pathIsLatest' = TRUE
         /\ inflight' = Superseded(inflight)
    ELSE LET waypoints == Waypoints(r.stops, lookup)
         IN IF Len(waypoints) < 2
            THEN /\ routePath' = routePath
                 /\ pathIsLatest' = FALSE
                 /\ inflight' = Superseded(inflight)
            ELSE /\ Len(inflight) < MaxInFlight
                 /\ routePath' = routePath
                 /\ pathIsLatest' = FALSE
                 /\ inflight' = Append(Superseded(inflight),
                                       [coords |-> RequestCoords(waypoints),
                                        waypoints |-> waypoints,
                                        latest |-> TRUE])

\* <Polyline positions={routePath}/>, rendered while routePath is not empty.
Polyline(positions) == [kind |-> "polyline", positions |-> positions]

\* L.polylineDecorator(positions, ...), the arrow layer of RouteArrows.
Decorator(positions) == [kind |-> "decorator", positions |-> positions]

\* The layers ls without those equal to layer.
RemoveLayer(ls, layer) ==
    LET Keep(l) == l # layer
    IN SelectSeq(ls, Keep)

\* The <Polyline> element when routePath goes from old to new: added when it
\* is first rendered, given the new positions while it stays, removed when
\* it is no longer rendered.
PolylineCommit(ls, old, new) ==
    IF new = <<>>
    THEN RemoveLayer(ls, Polyline(old))
    ELSE IF old = <<>>
         THEN Append(ls, Polyline(new))
         ELSE [k \in DOMAIN ls |->
                 IF ls[k] = Polyline(old) THEN Polyline(new) ELSE ls[k]]

\* Mutant: the effect of RouteArrows without the cleanup it returns.
RouteArrowsEffect_NoCleanup(ls, old, new) ==
    IF new # <<>> THEN Append(ls, Decorator(new)) ELSE ls

\* The effect of RouteArrows when positions goes from old to new: the cleanup
\* of the previous run (if RouteArrows was rendered) removes its decorator,
\* then the new run (if RouteArrows is rendered) adds one.
RouteArrowsEffect(ls, old, new) ==
    LET cleaned == IF old # <<>> THEN RemoveLayer(ls, Decorator(old)) ELSE ls
    IN IF new # <<>> THEN Append(cleaned, Decorator(new)) ELSE cleaned

\* The route layers after a render of MapComponent.  Without setRoutePath
\* positions is the same array and nothing runs.  A changed first point
\* changes the key of MapContainer: every child is unmounted (cleanups run)
\* and mounted on a new map, which leaves the same layers.
LayersCommit(ls, old, new) ==
    IF new = old
    THEN ls
    ELSE RouteArrowsEffect(PolylineCommit(ls, old, new), old, new)

\* Mutant: each render of App sends GET /api/ngos again.
AppRender_RefetchNgos(v, os, r) ==
    LET lookup == createLocationLookup(v, os)
    IN /\ locations' = lookup
       /\ markers' = StopMarkers(r, lookup)
       /\ RouteEffect(r, lookup)
       /\ layers' = LayersCommit(layers, routePath, routePath')
       /\ ngoPending' = TRUE
       /\ UNCHANGED <<ngos, styleVars>>

\* A re-render of App with state (v, os, r): createLocationLookup() makes a
\* new lookup object, so the route effect of MapComponent runs again.
AppRender(v, os, r) ==
    LET lookup == createLocationLookup(v, os)
    IN /\ locations' = lookup
       /\ markers' = StopMarkers(r, lookup)
       /\ RouteEffect(r, lookup)
       /\ layers' = LayersCommit(layers, routePath, routePath')
       /\ UNCHANGED <<ngos, ngoPending, styleVars>>

\* A re-render of MapComponent alone (its own state changed): same props,
\* so no effect runs.
MapRender ==
    /\ markers' = StopMarkers(route, locations)
    /\ layers' = LayersCommit(layers, routePath, routePath')
    /\ UNCHANGED <<appVars, locations, styleVars>>

\* Mutant: the critical band tested with < instead of <=.
getOrderStyle_Strict(mins, dark) ==
    IF mins < 120
    THEN [borderLeft |-> "6px solid #e74c3c",
          background |-> IF dark THEN "#342222" ELSE "#fce4e4",
          color |-> IF dark THEN "#ecf0f1" ELSE "#2c3e50",
          animation |-> "pulse 2s infinite"]
    ELSE IF mins <= 300
         THEN [borderLeft |-> "6px solid #e67e22",
               background |-> IF dark THEN "#34495e" ELSE "#fff3e0",
               color |-> IF dark THEN "#ecf0f1" ELSE "#2c3e50"]
         ELSE [borderLeft |-> "4px solid #2ecc71",
               background |-> IF dark THEN "#34495e" ELSE "#e8f8f5",
               color |-> IF dark THEN "#ecf0f1" ELSE "#2c3e50"]

\* getOrderStyle(minsRemaining), with the darkMode it closes over.
getOrderStyle(mins, dark) ==
    IF mins <= 120
    THEN [borderLeft |-> "6px solid #e74c3c",
          background |-> IF dark THEN "#342222" ELSE "#fce4e4",
          color |-> IF dark THEN "#ecf0f1" ELSE "#2c3e50",
          animation |-> "pulse 2s infinite"]
    ELSE IF mins <= 300
         THEN [borderLeft |-> "6px solid #e67e22",
               background |-> IF dark THEN "#34495e" ELSE "#fff3e0",
               color |-> IF dark THEN "#ecf0f1" ELSE "#2c3e50"]
         ELSE [borderLeft |-> "4px solid #2ecc71",
               background |-> IF dark THEN "#34495e" ELSE "#e8f8f5",
               color |-> IF dark THEN "#ecf0f1" ELSE "#2c3e50"]

NoStyle == [borderLeft |-> "none"]

\* No App request is awaited.
NoPrior == [none |-> TRUE]

\* The session state a handler finds when it is invoked.
Snapshot == [vehicle |-> vehicle, orders |-> orders, route |-> route,
             distance |-> distance]

\* ------------------------------------------------------------------- Init
\* The dashboard after its first render: MapComponent has mounted, its NGO
\* effect has sent GET /api/ngos and its route effect has run with route
\* null.
Init ==
    /\ vehicle = NullVehicle
    /\ orders = <<>>
    /\ route = NullRoute
    /\ distance = "0"
    /\ loading = FALSE
    /\ error = NoError
    /\ darkMode = TRUE
    /\ pending = "none"
    /\ prior = NoPrior
    /\ locations = createLocationLookup(NullVehicle, <<>>)
    /\ routePath = <<>>
    /\ ngos = <<>>
    /\ ngoPending = TRUE
    /\ inflight = <<>>
    /\ pathIsLatest = TRUE
    /\ markers = <<>>
    /\ layers = <<>>
    /\ minsRemaining = 0
    /\ cardStyle = NoStyle

\* ------------------------------------------------------------ App actions
\* Mutant: handleFetchLive without setRoute(null).
FetchLive_KeepsRoute ==
    /\ ~loading
    /\ loading' = TRUE
    /\ error' = NoError
    /\ vehicle' = MyVehicle
    /\ pending' = "orders"
    /\ prior' = Snapshot
    /\ UNCHANGED <<orders, route, distance, darkMode>>
    /\ AppRender(vehicle', orders', route')

\* Mutant: the "Fetch Live Orders" button is never disabled.
FetchLive_AlwaysEnabled ==
    /\ loading' = TRUE
    /\ route' = NullRoute
    /\ error' = NoError
    /\ vehicle' = MyVehicle
    /\ pending' = "orders"
    /\ prior' = Snapshot
    /\ UNCHANGED <<orders, distance, darkMode>>
    /\ AppRender(vehicle', orders', route')

\* Click on "Fetch Live Orders" (enabled while not loading): handleFetchLive
\* up to its await.
FetchLive ==
    /\ ~loading
    /\ loading' = TRUE
    /\ route' = NullRoute
    /\ error' = NoError
    /\ vehicle' = MyVehicle
    /\ pending' = "orders"
    /\ prior' = Snapshot
    /\ UNCHANGED <<orders, distance, darkMode>>
    /\ AppRender(vehicle', orders', route')

\* GET /api/orders answers with liveOrders: the rest of the try block and
\* the finally block.
FetchLiveOk(liveOrders) ==
    /\ pending = "orders"
    /\ IF Len(liveOrders) = 0
       THEN /\ error' = ErrNoActive
            /\ orders' = <<>>
       ELSE /\ orders' = SortByEnd(liveOrders)
            /\ error' = error
    /\ loading' = FALSE
    /\ pending' = "none"
    /\ prior' = NoPrior
    /\ UNCHANGED <<vehicle, route, distance, darkMode>>
    /\ AppRender(vehicle', orders', route')

\* Mutant: handleFetchLive without its finally block.
FetchLiveFail_KeepsLoading ==
    /\ pending = "orders"
    /\ error' = ErrFetch
    /\ pending' = "none"
    /\ prior' = NoPrior
    /\ UNCHANGED <<vehicle, orders, route, distance, loading, darkMode>>
    /\ AppRender(vehicle', orders', route')

\* Mutant: the catch block also empties the order list.
FetchLiveFail_ClearsOrders ==
    /\ pending = "orders"
    /\ error' = ErrFetch
    /\ orders' = <<>>
    /\ loading' = FALSE
    /\ pending' = "none"
    /\ prior' = NoPrior
    /\ UNCHANGED <<vehicle, route, distance, darkMode>>
    /\ AppRender(vehicle', orders', route')

\* GET /api/orders fails: the catch block and the finally block.
FetchLiveFail ==
    /\ pending = "orders"
    /\ error' = ErrFetch
    /\ loading' = FALSE
    /\ pending' = "none"
    /\ prior' = NoPrior
    /\ UNCHANGED <<vehicle, orders, route, distance, darkMode>>
    /\ AppRender(vehicle', orders', route')

\* Mutant: the handler without its entry check.
handleOptimize_NoGuard ==
    /\ loading' = TRUE
    /\ error' = NoError
    /\ pending' = "optimize"
    /\ prior' = Snapshot
    /\ UNCHANGED <<vehicle, orders, route, distance, darkMode>>
    /\ AppRender(vehicle', orders', route')

\* handleOptimize up to its await.  The rejection re-renders App only when
\* setError changes the message.
handleOptimize ==
    /\ IF vehicle = NullVehicle \/ Len(orders) = 0
       THEN /\ error' = ErrNoOrders
            /\ UNCHANGED <<loading, pending, prior>>
       ELSE /\ loading' = TRUE
            /\ error' = NoError
            /\ pending' = "optimize"
            /\ prior' = Snapshot
    /\ UNCHANGED <<vehicle, orders, route, distance, darkMode>>
    /\ IF error' = error /\ loading' = loading
       THEN UNCHANGED <<mapVars, styleVars>>
       ELSE AppRender(vehicle', orders', route')

\* Click on "Optimize Path" (enabled while not loading and orders exist).
Optimize ==
    /\ ~(loading \/ Len(orders) = 0)
    /\ handleOptimize

\* handleOptimize called although there is no vehicle or no order. The
\* "Optimize Path" button is disabled in these states, so this is a call the
\* buttons cannot make; it exercises the handler's own entry check.
OptimizeDirect ==
    /\ vehicle = NullVehicle \/ Len(orders) = 0
    /\ handleOptimize

\* POST /api/optimize answers with {route, total_distance}.
OptimizeOk(stops, total_distance) ==
    /\ pending = "optimize"
    /\ route' = [stops |-> stops]
    /\ distance' = ToFixed2(total_distance)
    /\ loading' = FALSE
    /\ pending' = "none"
    /\ prior' = NoPrior
    /\ UNCHANGED <<vehicle, orders, error, darkMode>>
    /\ AppRender(vehicle', orders', route')

\* Mutant: the catch block also drops the route.
OptimizeFail_ClearsRoute ==
    /\ pending = "optimize"
    /\ error' = ErrOptimize
    /\ route' = NullRoute
    /\ loading' = FALSE
    /\ pending' = "none"
    /\ prior' = NoPrior
    /\ UNCHANGED <<vehicle, orders, distance, darkMode>>
    /\ AppRender(vehicle', orders', route')

\* POST /api/optimize fails.
OptimizeFail ==
    /\ pending = "optimize"
    /\ error' = ErrOptimize
    /\ loading' = FALSE
    /\ pending' = "none"
    /\ prior' = NoPrior
    /\ UNCHANGED <<vehicle, orders, route, distance, darkMode>>
    /\ AppRender(vehicle', orders', route')

\* Click on the theme toggle.
ToggleTheme ==
    /\ darkMode' = ~darkMode
    /\ UNCHANGED <<vehicle, orders, route, distance, loading, error, pending, prior>>
    /\ AppRender(vehicle', orders', route')

\* --------------------------------------------------- MapComponent actions
\* GET /api/ngos answers.
NgosOk(list) ==
    /\ ngoPending
    /\ ngoPending' = FALSE
    /\ ngos' = list
    /\ UNCHANGED <<routePath, inflight, pathIsLatest>>
    /\ MapRender

\* GET /api/ngos fails: console.error only.
NgosFail ==
    /\ ngoPending
    /\ ngoPending' = FALSE
    /\ UNCHANGED <<ngos, routePath, inflight, pathIsLatest>>
    /\ MapRender

\* The i-th request in flight without its i-th element.
RemoveAt(reqs, i) ==
    SubSeq(reqs, 1, i - 1) \o SubSeq(reqs, i + 1, Len(reqs))

\* Mutant: a raised failure sends the request again after the fallback.
FetchRoadShapeDone_Retry(i, response) ==
    /\ i \in 1..Len(inflight)
    /\ IF WritesPath(response)
       THEN /\ routePath' = ResolvedPath(inflight[i], response)
            /\ pathIsLatest' = inflight[i].latest
       ELSE UNCHANGED <<routePath, pathIsLatest>>
    /\ inflight' = IF response.status = "error"
                   THEN Append(RemoveAt(inflight, i), inflight[i])
                   ELSE RemoveAt(inflight, i)
    /\ UNCHANGED <<ngos, ngoPending>>
    /\ MapRender

\* The routing service answers the i-th request in flight: fetchRoadShape
\* resumes after its await.
FetchRoadShapeDone(i, response) ==
    /\ i \in 1..Len(inflight)
    /\ IF WritesPath(response)
       THEN /\ routePath' = ResolvedPath(inflight[i], response)
            /\ pathIsLatest' = inflight[i].latest
       ELSE UNCHANGED <<routePath, pathIsLatest>>
    /\ inflight' = RemoveAt(inflight, i)
    /\ UNCHANGED <<ngos, ngoPending>>
    /\ MapRender

OsrmError(i) == \E response \in OsrmFailures : FetchRoadShapeDone(i, response)
OsrmNoRoute(i) == \E response \in OsrmNoRoutes : FetchRoadShapeDone(i, response)
OsrmBadRoute(i) == \E response \in OsrmMalformed : FetchRoadShapeDone(i, response)
OsrmRoute(i) == \E response \in OsrmRoutes : FetchRoadShapeDone(i, response)

\* One run-to-completion slice that re-renders App.
AppStep ==
    \/ FetchLive
    \/ \E liveOrders \in OrderLists : FetchLiveOk(liveOrders)
    \/ FetchLiveFail
    \/ Optimize
    \/ \E stops \in RoutePool, d \in DistancePool : OptimizeOk(stops, d)
    \/ OptimizeFail
    \/ ToggleTheme

Next ==
    \/ FetchLive
    \/ \E liveOrders \in OrderLists : FetchLiveOk(liveOrders)
    \/ FetchLiveFail
    \/ Optimize
    \/ \E stops \in RoutePool, d \in DistancePool : OptimizeOk(stops, d)
    \/ OptimizeFail
    \/ ToggleTheme
    \/ \E list \in NgoPool : NgosOk(list)
    \/ NgosFail
    \/ \E i \in 1..MaxInFlight : OsrmError(i)
    \/ \E i \in 1..MaxInFlight : OsrmNoRoute(i)
    \/ \E i \in 1..MaxInFlight : OsrmBadRoute(i)
    \/ \E i \in 1..MaxInFlight : OsrmRoute(i)

Spec == Init /\ [][Next]_vars

OsrmAnswers == OsrmFailures \cup OsrmNoRoutes \cup OsrmMalformed \cup OsrmRoutes

\* GET /api/orders or POST /api/optimize completes, with an answer or a
\* failure.
AppRequestDone ==
    \/ \E liveOrders \in OrderLists : FetchLiveOk(liveOrders)
    \/ FetchLiveFail
    \/ \E stops \in RoutePool, d \in DistancePool : OptimizeOk(stops, d)
    \/ OptimizeFail

\* The routing service completes a request in flight.
OsrmRequestDone ==
    \E i \in 1..Len(inflight), response \in OsrmAnswers :
        FetchRoadShapeDone(i, response)

\* The session when every request completes: an awaited backend request is
\* answered or fails, and so does every routing request in flight.
SpecLive ==
    /\ Spec
    /\ SF_vars(AppRequestDone)
    /\ WF_vars(OsrmRequestDone)

\* The session when handleOptimize may also be called directly.
NextDirect ==
    \/ Next
    \/ OptimizeDirect

SpecDirect == Init /\ [][NextDirect]_vars

\* ------------------------------------------- urgency styling on its own
\* Mutant: in the light theme the card is classified one minute late.
ClassifyOrder_ThemeShift ==
    /\ cardStyle' = getOrderStyle(IF darkMode THEN minsRemaining
                                               ELSE minsRemaining - 1, darkMode)
    /\ UNCHANGED <<appVars, mapVars, minsRemaining>>

\* The order card of an order with minsRemaining minutes left is rendered.
ClassifyOrder ==
    /\ cardStyle' = getOrderStyle(minsRemaining, darkMode)
    /\ UNCHANGED <<appVars, mapVars, minsRemaining>>

InitUrgency ==
    /\ vehicle = NullVehicle
    /\ orders = <<>>
    /\ route = NullRoute
    /\ distance = "0"
    /\ loading = FALSE
    /\ error = NoError
    /\ darkMode = TRUE
    /\ pending = "none"
    /\ prior = NoPrior
    /\ locations = createLocationLookup(NullVehicle, <<>>)
    /\ routePath = <<>>
    /\ ngos = <<>>
    /\ ngoPending = TRUE
    /\ inflight = <<>>
    /\ pathIsLatest = TRUE
    /\ markers = <<>>
    /\ layers = <<>>
    /\ minsRemaining \in (-MaxMinutes)..MaxMinutes
    /\ cardStyle = NoStyle

NextUrgency ==
    \/ ClassifyOrder
    \/ ToggleTheme

SpecUrgency == InitUrgency /\ [][NextUrgency]_vars

\* The card is rendered while the theme is toggled and orders are fetched.
NextCards ==
    \/ ClassifyOrder
    \/ ToggleTheme
    \/ FetchLive
    \/ \E liveOrders \in OrderLists : FetchLiveOk(liveOrders)
    \/ FetchLiveFail

SpecCards == InitUrgency /\ [][NextCards]_vars

\* ================================================================ claims

\* C1: stale-response suppression.  When the displayed RoutePath is the one
\* the latest resolution produced and a request of an older resolution,
\* started for different (stops, locations) inputs (its waypoints differ),
\* is answered afterwards, the answer does not overwrite the displayed
\* RoutePath.
C1_StaleResponseSuppressed ==
    [][\A i \in 1..Len(inflight) : \A response \in OsrmAnswers :
         ( /\ FetchRoadShapeDone(i, response)
           /\ ~inflight[i].latest
           /\ pathIsLatest
           /\ routePath # <<>>
           /\ inflight[i].waypoints # Waypoints(route.stops, locations) )
         => routePath' = routePath]_vars

\* The input (r, lookup) resolves to fewer than 2 waypoints.
FewerThanTwo(r, lookup) ==
    \/ r = NullRoute
    \/ LET matched == { i \in 1..Len(r.stops) :
                          r.stops[i].location_id \in DOMAIN lookup }
           depot == IF "DEPOT" \in DOMAIN lookup THEN 1 ELSE 0
       IN Cardinality(matched) + depot < 2

\* C2: a resolution cycle whose input resolves to fewer than 2 waypoints
\* leaves the displayed RoutePath empty, whatever was displayed before.
C2_FewWaypointsEmptyPath ==
    [][(AppStep /\ FewerThanTwo(route', locations')) => routePath' = <<>>]_vars

\* C3: when the routing-service call of a resolution with n >= 2 waypoints
\* raises (error status, or a payload whose geometry cannot be read), the
\* RoutePath becomes the n waypoints as (lat, lon) pairs in waypoint order
\* and no error is shown to the session.
C3_FailureStraightLine ==
    [][\A i \in 1..Len(inflight) :
         \A response \in OsrmFailures \cup OsrmMalformed :
           FetchRoadShapeDone(i, response) =>
             LET w == inflight[i].waypoints
             IN /\ Len(w) >= 2
                /\ Len(routePath') = Len(w)
                /\ \A k \in 1..Len(w) : routePath'[k] = <<w[k].lat, w[k].lon>>
                /\ error' = error]_vars

\* C3 witness: the straight line depot, pickup of a failed request for the
\* route <<2_pickup>> is displayed and no error is shown.
C3_Witness ==
    /\ route = [stops |-> <<StopPickup2>>]
    /\ "2_pickup" \in DOMAIN locations
    /\ routePath = << <<251825, 758236>>, <<251900, 758100>> >>
    /\ error = NoError

\* C4: when the routing service answers without a route (missing or empty
\* route list), a resolution with n >= 2 waypoints displays the n waypoints
\* as a straight line.
C4_NoRouteStraightLine ==
    [][\A i \in 1..Len(inflight) : \A response \in OsrmNoRoutes :
         FetchRoadShapeDone(i, response) =>
           LET w == inflight[i].waypoints
           IN /\ Len(routePath') = Len(w)
              /\ \A k \in 1..Len(w) : routePath'[k] = <<w[k].lat, w[k].lon>>]_vars

\* C5: the request for the stop list DEPOT, order1_pickup, order1_delivery
\* (lookup holding the depot and order 1) carries 3 waypoints: depot,
\* pickup, delivery, the depot once.
C5_DepotOnce ==
    [][( /\ AppStep
         /\ route' = [stops |-> <<StopDepot, StopPickup1, StopDelivery1>>]
         /\ "1_pickup" \in DOMAIN locations'
         /\ Len(inflight') > Len(inflight) )
       => inflight'[Len(inflight')].waypoints = <<Kota, Pickup1, Delivery1>>]_vars

\* C6: the waypoints of a resolution are the stops that have a lookup entry,
\* in stop order, mapped through the lookup, preceded by the DEPOT entry
\* whenever the lookup has one.
C6_WaypointExtraction ==
    [][(AppStep /\ Len(inflight') > Len(inflight)) =>
         LET w == inflight'[Len(inflight')].waypoints
             stops == route'.stops
             hasDepot == "DEPOT" \in DOMAIN locations'
             rest == IF hasDepot THEN Tail(w) ELSE w
             matched == { i \in 1..Len(stops) :
                            stops[i].location_id \in DOMAIN locations' }
         IN /\ hasDepot => w[1] = locations'["DEPOT"]
            /\ Len(rest) = Cardinality(matched)
            /\ \A i \in matched :
                  rest[Cardinality({ j \in matched : j <= i })]
                      = locations'[stops[i].location_id]]_vars

\* C6 witness: with both orders in the lookup, the route <<2_pickup>> (no
\* stop names DEPOT) is being resolved with the waypoints depot, pickup of
\* order 2.
C6_Witness ==
    /\ route = [stops |-> <<StopPickup2>>]
    /\ Len(orders) = 2
    /\ Len(inflight) > 0
    /\ inflight[Len(inflight)].latest
    /\ inflight[Len(inflight)].waypoints = <<Kota, Pickup2>>

\* C7: a request carries the waypoints as (lon, lat) pairs in waypoint
\* order, and an answer with a route makes the RoutePath the first route's
\* coordinates, in order, each (lon, lat) pair flipped to (lat, lon).
C7_RequestAndFlip ==
    /\ [](\A i \in 1..Len(inflight) :
            LET req == inflight[i]
            IN /\ Len(req.coords) = Len(req.waypoints)
               /\ \A k \in 1..Len(req.waypoints) :
                     req.coords[k] = <<req.waypoints[k].lon, req.waypoints[k].lat>>)
    /\ [][\A i \in 1..Len(inflight) : \A response \in OsrmRoutes :
            FetchRoadShapeDone(i, response) =>
              LET geo == response.data.routes[1].geometry.coordinates
              IN /\ Len(routePath') = Len(geo)
                 /\ \A k \in 1..Len(geo) :
                       /\ routePath'[k][1] = geo[k][2]
                       /\ routePath'[k][2] = geo[k][1]]_vars

\* C7 witness: the 4-point road geometry is displayed as (lat, lon) pairs.
C7_Witness ==
    routePath = << <<251825, 758236>>, <<251900, 758300>>, <<252000, 758500>>,
                   <<251500, 758000>> >>

\* The urgency tier a card style shows.
TierOf(style) ==
    IF style.borderLeft = "6px solid #e74c3c" THEN "CRITICAL"
    ELSE IF style.borderLeft = "6px solid #e67e22" THEN "HIGH"
    ELSE IF style.borderLeft = "4px solid #2ecc71" THEN "NORMAL"
    ELSE "NONE"

C9_StopMarkers ==
    IF route = NullRoute THEN markers = <<>>
    ELSE LET stops == route.stops
             shown == { idx \in 0..(Len(stops) - 1) :
                          /\ stops[idx + 1].location_id \in DOMAIN locations
                          /\ stops[idx + 1].type # "start" }
         IN /\ Len(markers) = Cardinality(shown)
            /\ { markers[m].key : m \in 1..Len(markers) } = shown

\* C9 witness: DEPOT (start), pickup and delivery of order 1, all in the
\* lookup, are rendered as exactly two markers.
C9_Witness ==
    /\ route = [stops |-> <<StopDepot, StopPickup1, StopDelivery1>>]
    /\ "1_pickup" \in DOMAIN locations
    /\ "1_delivery" \in DOMAIN locations
    /\ Len(markers) = 2

\* C10: a resolution cycle issues one request when its input resolves to at
\* least 2 waypoints and none otherwise; an answer, failure included, issues
\* no further request.
C10_OneRequest ==
    [][/\ AppStep =>
            /\ Len(inflight') = Len(inflight)
                                + (IF FewerThanTwo(route', locations') THEN 0 ELSE 1)
            /\ \A k \in 1..Len(inflight) : inflight'[k].coords = inflight[k].coords
       /\ \A i \in 1..Len(inflight) : \A response \in OsrmAnswers :
            FetchRoadShapeDone(i, response) =>
                /\ Len(inflight') = Len(inflight) - 1
                /\ \A k \in 1..Len(inflight') :
                      inflight'[k].coords
                          = inflight[IF k < i THEN k ELSE k + 1].coords]_vars

\* C10 witness: the request for <<2_pickup>> has failed (its straight line
\* is displayed) while an error of the optimizer is shown, and nothing is in
\* flight.
C10_Witness ==
    /\ route = [stops |-> <<StopPickup2>>]
    /\ routePath = << <<251825, 758236>>, <<251900, 758100>> >>
    /\ error = ErrOptimize
    /\ inflight = <<>>

\* C11: when an optimization request fails, an error message is shown and
\* vehicle, orders, route and distance are what they were when the
\* optimization was started.
C11_OptimizeFailKeepsState ==
    [][OptimizeFail =>
         /\ error' # NoError
         /\ vehicle' = prior.vehicle
         /\ orders' = prior.orders
         /\ route' = prior.route
         /\ distance' = prior.distance]_vars

\* C11 witness: a second optimization has failed; the route and distance of
\* the first one are still there.
C11_Witness ==
    /\ error = ErrOptimize
    /\ pending = "none"
    /\ route = [stops |-> <<StopDepot, StopPickup1, StopDelivery1>>]
    /\ distance = "12.35"
    /\ Len(orders) = 2

C13_OptimizeRejected ==
    [][OptimizeDirect =>
         /\ pending' = pending
         /\ inflight' = inflight
         /\ error' = ErrNoOrders
         /\ route' = route
         /\ distance' = distance
         /\ loading' = loading]_vars

\* C13 witness: the call was rejected after an empty fetch replaced orders
\* that had been optimized; the distance of that optimization is still shown.
C13_Witness ==
    /\ error = ErrNoOrders
    /\ vehicle = MyVehicle
    /\ orders = <<>>
    /\ distance = "12.35"
    /\ ~loading

\* C14: after the request sent when the map is mounted, no step sends the
\* recipient-organization request again, and the organization list changes
\* only in the step where that request succeeds.
C14_NgosFetchedOnce ==
    [][/\ ngoPending' => ngoPending
       /\ ngos' # ngos => \E list \in NgoPool : NgosOk(list)]_vars

\* C14 witness: the organizations have arrived, and since then the route and
\* the lookup have changed and the theme has been toggled.
C14_Witness ==
    /\ ngos # <<>>
    /\ ~ngoPending
    /\ route # NullRoute
    /\ routePath # <<>>
    /\ ~darkMode

\* The arrow decorators among the layers on the map.
DecoratorsOnMap == SelectSeq(layers, LAMBDA l : l.kind = "decorator")

\* C15: the map carries at most one arrow decorator, built from the current
\* routePath (so each change of routePath removed the old one before adding
\* the new one); with an empty routePath it carries neither route line nor
\* decorator.
C15_OneIndicatorLayer ==
    /\ Len(DecoratorsOnMap) <= 1
    /\ routePath = <<>> => layers = <<>>
    /\ routePath # <<>> => layers = <<Polyline(routePath), Decorator(routePath)>>

\* C15 witness: a road geometry is displayed with its decorator, after a
\* straight line had been displayed (a later answer replaced it).
C15_Witness ==
    /\ Len(routePath) > 2
    /\ DecoratorsOnMap = <<Decorator(routePath)>>
    /\ pathIsLatest
    /\ error = ErrOptimize

\* routePath after fetchRoadShape resumes with response for the request req
\* while the path displayed is shown: setRoutePath is called in the branch
\* with routes and in the catch block, otherwise the state is not written.
PathAfter(req, response, displayed) ==
    IF WritesPath(response) THEN ResolvedPath(req, response) ELSE displayed

\* C16: the RoutePath a resolution yields is determined by its (stops,
\* locations) pair and the routing-service response, whatever RoutePath was
\* displayed before: when an answer arrives, the resulting RoutePath is the
\* one the same request and answer yield from an empty display and from the
\* display a failure of the same request leaves (its straight line).
C16_Idempotent ==
    [][\A i \in 1..Len(inflight), response \in OsrmAnswers :
         FetchRoadShapeDone(i, response) =>
            /\ routePath' = PathAfter(inflight[i], response, routePath)
            /\ \A displayed \in {<<>>, StraightLine(inflight[i].waypoints)} :
                  routePath' = PathAfter(inflight[i], response, displayed)]_vars

\* C17: classifying minutesRemaining yields the tier every earlier
\* classification of the same minutesRemaining yielded, whatever the theme,
\* the orders and the loading flag were then and are now, and it changes no
\* state of the session or of the map.
C17_TierPure ==
    [][ClassifyOrder =>
         /\ cardStyle # NoStyle => TierOf(cardStyle') = TierOf(cardStyle)
         /\ \A dark \in BOOLEAN :
               TierOf(cardStyle') = TierOf(getOrderStyle(minsRemaining, dark))
         /\ UNCHANGED <<appVars, mapVars>>]_vars

\* C17 witness: a card at the CRITICAL boundary was classified in the dark
\* theme; the theme is now light, orders have arrived and a fetch is awaited.
C17_Witness ==
    /\ minsRemaining = 120
    /\ cardStyle # NoStyle
    /\ cardStyle.background = "#342222"
    /\ ~darkMode
    /\ Len(orders) = 2
    /\ loading

\* The route effect has something to resolve with the props r and lookup.
Resolvable(r, lookup) ==
    /\ r # NullRoute
    /\ Len(Waypoints(r.stops, lookup)) >= 2

\* C18: a re-render of App that changes the value of route or of the lookup
\* starts a resolution (a request is sent when there are two waypoints or
\* more), and a re-render that changes neither value sends no request and
\* leaves the displayed path alone.
C18_ResolveOnValueChange ==
    [][AppStep =>
         IF route' # route \/ locations' # locations
         THEN Resolvable(route', locations') => Len(inflight') = Len(inflight) + 1
         ELSE /\ Len(inflight') = Len(inflight)
              /\ routePath' = routePath]_vars

DepotKeys == {"DEPOT", "DEPOT_START", "DEPOT_END"}

\* The two lookup keys of an order.
OrderKeys(order) ==
    {ToString(order.id) \o "_pickup", ToString(order.id) \o "_delivery"}

\* C19: the lookup handed to the map has the three depot keys, mapped to
\* vehicle.start_location, iff a vehicle is set; for each current order its
\* pickup and delivery keys, mapped to that order's locations; and no other
\* key.
C19_LookupIsCurrent ==
    /\ \A k \in DepotKeys :
          /\ k \in DOMAIN locations <=> vehicle # NullVehicle
          /\ vehicle # NullVehicle => locations[k] = vehicle.start_location
    /\ \A n \in 1..Len(orders) :
          /\ OrderKeys(orders[n]) \subseteq DOMAIN locations
          /\ locations[ToString(orders[n].id) \o "_pickup"] = orders[n].pickup_location
          /\ locations[ToString(orders[n].id) \o "_delivery"] = orders[n].delivery_location
    /\ DOMAIN locations \subseteq
          DepotKeys \cup UNION {OrderKeys(orders[n]) : n \in 1..Len(orders)}

\* C19 witness: after an optimization the order list was fetched again and
\* holds order 2 alone; the lookup has its keys and none of order 1.
C19_Witness ==
    /\ distance = "12.35"
    /\ Len(orders) = 1
    /\ orders[1].id = 2
    /\ "2_pickup" \in DOMAIN locations
    /\ "1_pickup" \notin DOMAIN locations
    /\ "DEPOT" \in DOMAIN locations

\* C20: whenever loading is set (a fetch or an optimization is awaited), it
\* is eventually cleared, given that the awaited request completes.
C20_LoadingCleared == loading ~> ~loading

\* C20 witness: after a failed fetch and a failed optimization loading is
\* clear and both buttons are enabled again.
C20_Witness ==
    /\ ~loading
    /\ pending = "none"
    /\ error = ErrOptimize
    /\ Len(orders) = 1
    /\ route = NullRoute

\* C21: when the recipient-organization request fails, a message is shown
\* to the user, and the organization list and the rest of the session state
\* are left as they were.
C21_NgoFailureSurfaced ==
    [][NgosFail =>
         /\ error' # NoError
         /\ ngos' = ngos
         /\ UNCHANGED <<vehicle, orders, route, distance, loading, routePath>>]_vars

\* The elements of a sequence.
Range(seq) == {seq[k] : k \in 1..Len(seq)}

\* C22: after a fetch answered with a non-empty list, orders is a
\* permutation of that list in non-decreasing order of pickup_window.end;
\* after a fetch answered with an empty list, orders is empty and the
\* guidance message is shown.
C22_OrdersSorted ==
    [][\A liveOrders \in OrderLists :
         FetchLiveOk(liveOrders) =>
            IF Len(liveOrders) = 0
            THEN /\ orders' = <<>>
                 /\ error' = ErrNoActive
            ELSE /\ Len(orders') = Len(liveOrders)
                 /\ Range(orders') = Range(liveOrders)
                 /\ \A k \in 1..(Len(orders') - 1) :
                       orders'[k].pickup_window.end <= orders'[k + 1].pickup_window.end]_vars

\* C22 witness: both orders have been fetched; the one expiring first
\* (order 2) is stored first.
C22_Witness ==
    /\ Len(orders) = 2
    /\ orders[1].id = 2
    /\ orders[2].id = 1
    /\ pending = "none"
    /\ error = NoError
    /\ route = NullRoute

\* C23: a fetch or an optimization is started only while loading is clear
\* and no dashboard request is awaited, and loading is set for as long as
\* one is awaited; so a fetch and an optimization never overlap.
C23_OneDashboardRequest ==
    [][/\ (FetchLive \/ Optimize) => (~loading /\ pending = "none")
       /\ pending' # "none" => loading']_vars

\* C23 witness: an optimization is awaited after a first one has set a
\* route; loading is set and both buttons are disabled.
C23_Witness ==
    /\ loading
    /\ pending = "optimize"
    /\ route # NullRoute
    /\ error = NoError
    /\ prior # NoPrior

\* C24: a non-null route is the optimizer's answer for the vehicle and the
\* orders the session holds: route takes a new non-null value only in the
\* step where the awaited optimization is answered, the vehicle and orders
\* sent with it (those at the click) being the ones then held, and while
\* route stays non-null neither vehicle nor orders change.
C24_RouteIsForCurrentOrders ==
    [][/\ (route' # NullRoute /\ route' # route) =>
            /\ pending = "optimize"
            /\ prior.vehicle = vehicle'
            /\ prior.orders = orders'
       /\ (route # NullRoute /\ route' # NullRoute) =>
            /\ vehicle' = vehicle
            /\ orders' = orders]_vars

\* C24 witness: the orders were fetched again after a first optimization and
\* hold order 2 alone; the route is the answer of a second optimization.
C24_Witness ==
    /\ route = [stops |-> <<StopPickup2>>]
    /\ Len(orders) = 1
    /\ orders[1].id = 2
    /\ pending = "none"
    /\ error = NoError
    /\ ~darkMode

\* C25: while the stop list is cleared (route null or without stops) the
\* displayed RoutePath is empty, also after an answer of the routing service
\* for an earlier stop list has arrived.
C25_ClearedStaysEmpty ==
    (route = NullRoute \/ Len(route.stops) = 0) => routePath = <<>>

====
